---- MODULE Spec2Model ----
(***************************************************************************)
(* Connect Four: the game engine of src/features/GameBoard/utils.ts        *)
(* (placeDisc and its helpers) driven by the hook useGameBoard of          *)
(* src/features/GameBoard/GameBoard.tsx (onPressCell, resetGame).          *)
(*                                                                         *)
(* JavaScript values are modelled as follows.                              *)
(*   Cell            "red", "yellow", or "null" (the value null)           *)
(*   a missing index "undefined" (what board[row][col] reads off the grid) *)
(*   GameBoard       a function row -> (column -> Cell); an indexed write  *)
(*                   to a missing column adds that column to the row, as   *)
(*                   an assignment to a JavaScript array does              *)
(*   [number,number] the pair <<row, col>>                                 *)
(*   winningDiscs    the sequence of pairs, or NULL (the value null)       *)
(***************************************************************************)
EXTENDS Integers, Sequences, FiniteSets, TLC

\* ------------------------------------------------------------------------
\* Program constants

ROWS == 6
COLUMNS == 7

\* src/components/GameBoard.tsx
rows == 6
columns == 7

\* ------------------------------------------------------------------------
\* Bounds of the exploration

\* Presses made freely (any column) after the scripted opening of a game.
MaxMoves == 3
\* How far outside 0..COLUMNS-1 a pressed column may lie.
MaxOff == 1
\* Presses made freely after the opening of a game played to its end.
MaxDetour == 0

\* ------------------------------------------------------------------------
\* Values

\* winningDiscs: null.  checkDirection's lists always hold the placed cell,
\* so no list of the program is empty.
NULL == <<>>

Rows == 0 .. (ROWS - 1)
Cols == 0 .. (COLUMNS - 1)

\* board[row][col], as JavaScript reads it: undefined off the row
At(board, row, col) ==
    IF row \in DOMAIN board /\ col \in DOMAIN board[row]
    THEN board[row][col]
    ELSE "undefined"

\* board[row][col] = value, as JavaScript writes it
SetCell(board, row, col, value) ==
    [board EXCEPT ![row] =
        [c \in (DOMAIN @) \cup {col} |-> IF c = col THEN value ELSE @[c]]]

\* ------------------------------------------------------------------------
\* utils.ts

RECURSIVE countCellsFrom(_, _, _, _, _)
\* the while loop of countCells, entered at (r, c)
countCellsFrom(state, r, c, rowDir, colDir) ==
    IF r >= 0 /\ r < 6 /\ c >= 0 /\ c < 7
       /\ At(state.gameBoard, r, c) = state.currentPlayer
    THEN <<<<r, c>>>> \o countCellsFrom(state, r + rowDir, c + colDir, rowDir, colDir)
    ELSE <<>>

countCells(state, row, col, rowDir, colDir) ==
    countCellsFrom(state, row + rowDir, col + colDir, rowDir, colDir)

\* mutant of checkDirection: the walk in the opposite direction is left out
checkDirectionOneWay(state, row, col, rowDir, colDir) ==
    LET winningDiscs == <<<<row, col>>>> \o countCells(state, row, col, rowDir, colDir)
    IN  IF Len(winningDiscs) >= 4 THEN winningDiscs ELSE NULL

\* mutant of checkDirection: the opposite walk is pushed first
checkDirectionOppositeFirst(state, row, col, rowDir, colDir) ==
    LET winningDiscs ==
            <<<<row, col>>>>
            \o countCells(state, row, col, -rowDir, -colDir)
            \o countCells(state, row, col, rowDir, colDir)
    IN  IF Len(winningDiscs) >= 4 THEN winningDiscs ELSE NULL

\* mutant of checkDirection: > 4 instead of >= 4
checkDirectionFive(state, row, col, rowDir, colDir) ==
    LET winningDiscs ==
            <<<<row, col>>>>
            \o countCells(state, row, col, rowDir, colDir)
            \o countCells(state, row, col, -rowDir, -colDir)
    IN  IF Len(winningDiscs) > 4 THEN winningDiscs ELSE NULL

checkDirection(state, row, col, rowDir, colDir) ==
    LET winningDiscs ==
            <<<<row, col>>>>
            \o countCells(state, row, col, rowDir, colDir)
            \o countCells(state, row, col, -rowDir, -colDir)
    IN  IF Len(winningDiscs) >= 4 THEN winningDiscs ELSE NULL

\* a || b on "list or null" (a list is truthy)
OrElse(a, b) == IF a # NULL THEN a ELSE b

\* mutant of isWinningMove: the axes are tried in the reverse order
isWinningMoveReversed(state, row, col) ==
    OrElse(checkDirection(state, row, col, 1, -1),
    OrElse(checkDirection(state, row, col, 1, 1),
    OrElse(checkDirection(state, row, col, 1, 0),
           checkDirection(state, row, col, 0, 1))))

\* mutant of isWinningMove: the last axis is not tried
isWinningMoveThreeAxes(state, row, col) ==
    OrElse(checkDirection(state, row, col, 0, 1),
    OrElse(checkDirection(state, row, col, 1, 0),
           checkDirection(state, row, col, 1, 1)))

isWinningMove(state, row, col) ==
    OrElse(checkDirection(state, row, col, 0, 1),
    OrElse(checkDirection(state, row, col, 1, 0),
    OrElse(checkDirection(state, row, col, 1, 1),
           checkDirection(state, row, col, 1, -1))))

\* mutant of isWinningCell: the column is not compared
isWinningCellRowOnly(state, row, col) ==
    /\ state.winningDiscs # NULL
    /\ \E i \in 1 .. Len(state.winningDiscs) : state.winningDiscs[i][1] = row

isWinningCell(state, row, col) ==
    /\ state.winningDiscs # NULL
    /\ \E i \in 1 .. Len(state.winningDiscs) :
          state.winningDiscs[i][1] = row /\ state.winningDiscs[i][2] = col

\* mutant of isBoardFull: the bottom row is inspected
isBoardFullBottomRow(board) ==
    \A c \in DOMAIN board[5] : board[5][c] # "null"

\* mutant of isBoardFull: some instead of every
isBoardFullSome(board) ==
    \E c \in DOMAIN board[0] : board[0][c] # "null"

isBoardFull(board) ==
    \A c \in DOMAIN board[0] : board[0][c] # "null"

RECURSIVE getEmptyRowLoose(_, _, _)
\* mutant of getEmptyRowFrom: == null instead of === null (undefined == null)
getEmptyRowLoose(board, col, row) ==
    IF row >= 0
    THEN IF At(board, row, col) \in {"null", "undefined"}
         THEN row
         ELSE getEmptyRowLoose(board, col, row - 1)
    ELSE -1

RECURSIVE getEmptyRowFrom(_, _, _)
\* the for loop of getEmptyRow, entered at row
getEmptyRowFrom(board, col, row) ==
    IF row >= 0
    THEN IF At(board, row, col) = "null"
         THEN row
         ELSE getEmptyRowFrom(board, col, row - 1)
    ELSE -1

RECURSIVE getEmptyRowUp(_, _, _)
getEmptyRowUp(board, col, row) ==
    IF row <= 5
    THEN IF At(board, row, col) = "null"
         THEN row
         ELSE getEmptyRowUp(board, col, row + 1)
    ELSE -1

\* mutant of getEmptyRow: the scan starts at the top row
getEmptyRowTopDown(board, col) == getEmptyRowUp(board, col, 0)

\* mutant of getEmptyRow: a full column yields row 0 instead of -1
getEmptyRowClamped(board, col) ==
    LET row == getEmptyRowFrom(board, col, 5)
    IN  IF row < 0 THEN 0 ELSE row

getEmptyRow(board, col) == getEmptyRowFrom(board, col, 5)

\* const nextPlayer = state.currentPlayer === 'red' ? 'yellow' : 'red'
nextPlayerOf(player) == IF player = "red" THEN "yellow" ELSE "red"

\* mutant of winResult: winningDiscs is not stored
winResultNoDiscs(state, nextBoard, winningDiscs) ==
    [result |-> "win", gameBoard |-> nextBoard,
     currentPlayer |-> state.currentPlayer, winningDiscs |-> NULL]

\* mutant of winResult: the turn is passed on a win
winResultFlipped(state, nextBoard, winningDiscs) ==
    [result |-> "win", gameBoard |-> nextBoard,
     currentPlayer |-> nextPlayerOf(state.currentPlayer),
     winningDiscs |-> winningDiscs]

\* the state returned on a win
winResult(state, nextBoard, winningDiscs) ==
    [result |-> "win", gameBoard |-> nextBoard,
     currentPlayer |-> state.currentPlayer, winningDiscs |-> winningDiscs]

\* mutant of drawResult: the turn is passed on a draw
drawResultFlipped(state, nextBoard) ==
    [result |-> "draw", gameBoard |-> nextBoard,
     currentPlayer |-> nextPlayerOf(state.currentPlayer), winningDiscs |-> NULL]

\* mutant of drawResult: the game goes on
drawResultContinue(state, nextBoard) ==
    [result |-> "continue", gameBoard |-> nextBoard,
     currentPlayer |-> state.currentPlayer, winningDiscs |-> NULL]

\* the state returned on a draw
drawResult(state, nextBoard) ==
    [result |-> "draw", gameBoard |-> nextBoard,
     currentPlayer |-> state.currentPlayer, winningDiscs |-> NULL]

\* mutant of continueResult: the turn is not passed
continueResultSamePlayer(state, nextBoard) ==
    [result |-> "continue", gameBoard |-> nextBoard,
     currentPlayer |-> state.currentPlayer, winningDiscs |-> NULL]

\* the state returned when the game goes on
continueResult(state, nextBoard) ==
    [result |-> "continue", gameBoard |-> nextBoard,
     currentPlayer |-> nextPlayerOf(state.currentPlayer), winningDiscs |-> NULL]

\* mutant of dropDisc: the full board is looked for before the win
dropDiscDrawFirst(state, nextBoard, row, col) ==
    LET written == SetCell(nextBoard, row, col, state.currentPlayer)
        winningDiscs == isWinningMove([state EXCEPT !.gameBoard = written], row, col)
    IN  IF isBoardFull(written)
        THEN drawResult(state, written)
        ELSE IF winningDiscs # NULL
             THEN winResult(state, written, winningDiscs)
             ELSE continueResult(state, written)

\* mutant of dropDisc: the full board is not looked for
dropDiscNoDraw(state, nextBoard, row, col) ==
    LET written == SetCell(nextBoard, row, col, state.currentPlayer)
        winningDiscs == isWinningMove([state EXCEPT !.gameBoard = written], row, col)
    IN  IF winningDiscs # NULL
        THEN winResult(state, written, winningDiscs)
        ELSE continueResult(state, written)

\* placeDisc from the write of the disc on: nextBoard[row][col] = ...
dropDisc(state, nextBoard, row, col) ==
    LET written == SetCell(nextBoard, row, col, state.currentPlayer)
        winningDiscs == isWinningMove([state EXCEPT !.gameBoard = written], row, col)
    IN  IF winningDiscs # NULL
        THEN winResult(state, written, winningDiscs)
        ELSE IF isBoardFull(written)
             THEN drawResult(state, written)
             ELSE continueResult(state, written)

\* mutant of copyBoard: [...state.gameBoard], a new list of the same rows
copyBoardShallow(board) == [cells |-> board, shared |-> DOMAIN board]

\* state.gameBoard.map((row) => [...row]): a new list of new rows, equal to
\* the board cell by cell; shared are the rows that are the very arrays of
\* the board copied (a write to one of them is a write to that board)
copyBoard(board) == [cells |-> board, shared |-> {}]

\* mutant of placeDisc: no check of state.result (moves after the game's end)
placeDiscNoGuard(state, col) ==
    LET nextBoard == state.gameBoard
        row == getEmptyRow(nextBoard, col)
    IN  IF row = -1 THEN state ELSE dropDisc(state, nextBoard, row, col)

\* mutant of placeDisc: a rejected column passes the turn
placeDiscPassTurn(state, col) ==
    IF state.result # "continue"
    THEN state
    ELSE LET nextBoard == state.gameBoard
             row == getEmptyRow(nextBoard, col)
         IN  IF row = -1
             THEN [state EXCEPT !.currentPlayer = nextPlayerOf(@)]
             ELSE dropDisc(state, nextBoard, row, col)

placeDisc(state, col) ==
    IF state.result # "continue"
    THEN state
    ELSE LET nextBoard == copyBoard(state.gameBoard).cells
             row == getEmptyRow(nextBoard, col)
         IN  IF row = -1
             THEN state
             ELSE dropDisc(state, nextBoard, row, col)

\* the argument of placeDisc(state, col) as the call leaves it: the one
\* write of placeDisc, nextBoard[row][col] = ..., reaches the argument's
\* board when the written row is shared with it
placeDiscArgument(state, col) ==
    IF state.result # "continue"
    THEN state
    ELSE LET copy == copyBoard(state.gameBoard)
             row == getEmptyRow(copy.cells, col)
         IN  IF row # -1 /\ row \in copy.shared
             THEN [state EXCEPT
                     !.gameBoard = SetCell(@, row, col, state.currentPlayer)]
             ELSE state

\* ------------------------------------------------------------------------
\* utils.ts: TypeError.  board[row][col] throws when board[row] is
\* undefined; nothing else in placeDisc can throw.  Each operator tells
\* whether the function of that name throws on the arguments given.

RECURSIVE countCellsThrowsFrom(_, _, _, _, _)
countCellsThrowsFrom(state, r, c, rowDir, colDir) ==
    IF r >= 0 /\ r < 6 /\ c >= 0 /\ c < 7
    THEN IF r \notin DOMAIN state.gameBoard
         THEN TRUE
         ELSE IF At(state.gameBoard, r, c) = state.currentPlayer
              THEN countCellsThrowsFrom(state, r + rowDir, c + colDir, rowDir, colDir)
              ELSE FALSE
    ELSE FALSE

checkDirectionThrows(state, row, col, rowDir, colDir) ==
    \/ countCellsThrowsFrom(state, row + rowDir, col + colDir, rowDir, colDir)
    \/ countCellsThrowsFrom(state, row - rowDir, col - colDir, -rowDir, -colDir)

\* a || b: b is evaluated when a is null
isWinningMoveThrows(state, row, col) ==
    \/ checkDirectionThrows(state, row, col, 0, 1)
    \/ /\ checkDirection(state, row, col, 0, 1) = NULL
       /\ \/ checkDirectionThrows(state, row, col, 1, 0)
          \/ /\ checkDirection(state, row, col, 1, 0) = NULL
             /\ \/ checkDirectionThrows(state, row, col, 1, 1)
                \/ /\ checkDirection(state, row, col, 1, 1) = NULL
                   /\ checkDirectionThrows(state, row, col, 1, -1)

isBoardFullThrows(board) == 0 \notin DOMAIN board

RECURSIVE getEmptyRowThrowsFrom(_, _, _)
getEmptyRowThrowsFrom(board, col, row) ==
    IF row >= 0
    THEN IF row \notin DOMAIN board
         THEN TRUE
         ELSE IF At(board, row, col) = "null"
              THEN FALSE
              ELSE getEmptyRowThrowsFrom(board, col, row - 1)
    ELSE FALSE

getEmptyRowThrows(board, col) == getEmptyRowThrowsFrom(board, col, 5)

dropDiscThrows(state, nextBoard, row, col) ==
    \/ row \notin DOMAIN nextBoard
    \/ LET written == SetCell(nextBoard, row, col, state.currentPlayer)
           moved == [state EXCEPT !.gameBoard = written]
       IN  \/ isWinningMoveThrows(moved, row, col)
           \/ isWinningMove(moved, row, col) = NULL /\ isBoardFullThrows(written)

\* mutant of placeDiscThrows: no return on row === -1
placeDiscThrowsNoRowCheck(state, col) ==
    IF state.result # "continue"
    THEN FALSE
    ELSE LET nextBoard == copyBoard(state.gameBoard).cells
         IN  \/ getEmptyRowThrows(nextBoard, col)
             \/ dropDiscThrows(state, nextBoard, getEmptyRow(nextBoard, col), col)

placeDiscThrows(state, col) ==
    IF state.result # "continue"
    THEN FALSE
    ELSE LET nextBoard == copyBoard(state.gameBoard).cells
             row == getEmptyRow(nextBoard, col)
         IN  \/ getEmptyRowThrows(nextBoard, col)
             \/ row # -1 /\ dropDiscThrows(state, nextBoard, row, col)

\* ------------------------------------------------------------------------
\* GameBoard.tsx: useGameBoard

initialBoard == [r \in Rows |-> [c \in Cols |-> "null"]]

\* mutant of initialState: yellow starts
initialStateYellow ==
    [result |-> "continue", gameBoard |-> initialBoard,
     currentPlayer |-> "yellow", winningDiscs |-> NULL]

initialState ==
    [result |-> "continue", gameBoard |-> initialBoard,
     currentPlayer |-> "red", winningDiscs |-> NULL]

\* ------------------------------------------------------------------------
\* src/components/GameBoard.tsx: the second hook and its own helpers

RECURSIVE componentsCountCellsFrom(_, _, _, _, _)
\* the while loop of countCells, entered at (r, c)
componentsCountCellsFrom(state, r, c, rowDir, colDir) ==
    IF r >= 0 /\ r < rows /\ c >= 0 /\ c < columns
       /\ At(state.gameBoard, r, c) = state.currentPlayer
    THEN <<<<r, c>>>>
         \o componentsCountCellsFrom(state, r + rowDir, c + colDir, rowDir, colDir)
    ELSE <<>>

componentsCountCells(state, row, col, rowDir, colDir) ==
    componentsCountCellsFrom(state, row + rowDir, col + colDir, rowDir, colDir)

componentsCheckDirection(state, row, col, rowDir, colDir) ==
    LET winningDiscs ==
            <<<<row, col>>>>
            \o componentsCountCells(state, row, col, rowDir, colDir)
            \o componentsCountCells(state, row, col, -rowDir, -colDir)
    IN  IF Len(winningDiscs) >= 4 THEN winningDiscs ELSE NULL

componentsIsWinningMove(state, row, col) ==
    OrElse(componentsCheckDirection(state, row, col, 0, 1),
    OrElse(componentsCheckDirection(state, row, col, 1, 0),
    OrElse(componentsCheckDirection(state, row, col, 1, 1),
           componentsCheckDirection(state, row, col, 1, -1))))

componentsIsBoardFull(board) ==
    \A c \in DOMAIN board[0] : board[0][c] # "null"

RECURSIVE componentsGetEmptyRowFrom(_, _, _)
\* the for loop of getEmptyRow, entered at row
componentsGetEmptyRowFrom(board, col, row) ==
    IF row >= 0
    THEN IF At(board, row, col) = "null"
         THEN row
         ELSE componentsGetEmptyRowFrom(board, col, row - 1)
    ELSE -1

componentsGetEmptyRow(board, col) ==
    componentsGetEmptyRowFrom(board, col, rows - 1)

\* updateBoard: no look at state.result
updateBoard(state, col) ==
    LET nextBoard == state.gameBoard
        row == componentsGetEmptyRow(nextBoard, col)
    IN  IF row = -1
        THEN state
        ELSE LET written == SetCell(nextBoard, row, col, state.currentPlayer)
                 winningDiscs ==
                     componentsIsWinningMove(
                         [state EXCEPT !.gameBoard = written], row, col)
             IN  IF winningDiscs # NULL
                 THEN [result |-> "win", gameBoard |-> written,
                       currentPlayer |-> state.currentPlayer,
                       winningDiscs |-> winningDiscs]
                 ELSE IF componentsIsBoardFull(written)
                      THEN [result |-> "draw", gameBoard |-> written,
                            currentPlayer |-> state.currentPlayer,
                            winningDiscs |-> NULL]
                      ELSE [result |-> "continue", gameBoard |-> written,
                            currentPlayer |->
                                IF state.currentPlayer = "red"
                                THEN "yellow" ELSE "red",
                            winningDiscs |-> NULL]

componentsInitialBoard ==
    [r \in 0 .. (rows - 1) |-> [c \in 0 .. (columns - 1) |-> "null"]]

componentsInitialState ==
    [result |-> "continue", gameBoard |-> componentsInitialBoard,
     currentPlayer |-> "red", winningDiscs |-> NULL]

\* mutant of componentsOnPressCell: no look at state.result
componentsOnPressCellNoGuard(state, col) == updateBoard(state, col)

\* the hook's state after onPressCell(col) of src/components/GameBoard.tsx
\* called on state: a return before setState leaves the state as it is
componentsOnPressCell(state, col) ==
    IF state.result # "continue"
    THEN state
    ELSE updateBoard(state, col)

\* ------------------------------------------------------------------------
\* The user: the columns pressed in a game are a scripted opening, then
\* up to MaxMoves accepted presses of any column.  A script is a sequence
\* of presses of the repository's tests, cut before its end, or a game
\* that ends on a move the tests do not make.

Scripts ==
    << <<>>,
       \* should detect a horizontal win: 0 0 1 1 2 2 (3)
       <<0, 0, 1, 1, 2, 2>>,
       \* should detect a vertical win: 4 5 4 5 4 5 (4)
       <<4, 5, 4, 5, 4, 5>>,
       \* should detect a diagonal win: 0 1 1 2 2 3 2 3 4 3 (3)
       <<0, 1, 1, 2, 2, 3, 2, 3, 4, 3>>,
       \* the same, mirrored: the other diagonal
       <<6, 5, 5, 4, 4, 3, 4, 3, 2, 3>>,
       \* one column, five discs: the sixth fills it
       <<3, 3, 3, 3, 3>>,
       \* should detect a draw when the board is full: the first 39 presses
       <<0, 0, 0, 0, 0, 0,  1, 1, 1, 1, 1, 1,  2, 2, 2, 2, 2, 2,
         4, 4, 4, 4, 4, 4,  5, 5, 5, 5, 5, 5,  6, 6, 6, 6, 6, 3,
         3, 3, 3>>,
       \* the next press of 3 wins on the horizontal and the (1,1) diagonal
       <<2, 4, 0, 0, 1, 4, 2, 0, 0, 1, 1, 4>>,
       \* the next press of 5 wins on the vertical and the (1,-1) diagonal
       <<5, 4, 5, 4, 4, 0, 2, 6, 5, 3, 3, 2>>,
       \* the next press of 4 wins on both diagonals
       <<2, 1, 1, 5, 5, 5, 5, 3, 6, 2, 3, 3, 3, 4, 0, 4>>,
       \* 40 presses without a win; 0 then 3 fill the board, and the 42nd
       \* disc wins
       <<4, 1, 6, 2, 1, 0, 1, 4, 4, 2, 4, 1, 3, 6, 3, 3, 1, 0, 4, 6,
         6, 1, 2, 3, 2, 3, 2, 2, 6, 5, 5, 0, 5, 4, 6, 5, 5, 5, 0, 0>> >>

PressedCols == (0 - MaxOff) .. (COLUMNS - 1 + MaxOff)

VARIABLES
    state,      \* the hook's state (React.useState)
    op,         \* the last call made on the hook
    input,      \* the state that call was made on, as it was before the call
    inputAfter, \* the same state object, as the call left it
    lastMove,   \* the last accepted move: who placed a disc, and where
    script,     \* the opening this game follows
    pos,        \* presses of the opening made so far
    moves,      \* accepted presses made after the opening
    componentsState, \* the state of the hook of src/components/GameBoard.tsx
    closure,    \* the state captured by the handlers of the last render
    expected    \* placeDisc folded over the presses made since the start

vars == <<state, op, input, inputAfter, lastMove, script, pos, moves,
          componentsState, closure, expected>>

NoMove == [player |-> "none", cell |-> <<>>]

\* the cells of the grid in which two boards differ
Changed(a, b) ==
    UNION {{<<r, c>> : c \in {k \in Cols : At(a, r, k) # At(b, r, k)}} :
              r \in {k \in Rows : a[k] # b[k]}}

Init ==
    /\ state = initialState
    /\ op = [name |-> "useGameBoard"]
    /\ input = initialState
    /\ inputAfter = initialState
    /\ lastMove = NoMove
    /\ script \in 1 .. Len(Scripts)
    /\ pos = 0
    /\ moves = 0
    /\ componentsState = componentsInitialState
    /\ closure = initialState
    /\ expected = initialState

InOpening == pos < Len(Scripts[script])

\* onPressCell(col): setState(placeDisc(state, col)), and the render that
\* follows; the same press is made on the hook of src/components
onPressCell(c) ==
    LET nextState == placeDisc(state, c)
        changed == Changed(state.gameBoard, nextState.gameBoard)
    IN  /\ IF InOpening
           THEN c = Scripts[script][pos + 1]
           ELSE moves < MaxMoves \/ nextState = state
        /\ state' = nextState
        /\ closure' = nextState
        /\ expected' = placeDisc(expected, c)
        /\ componentsState' = componentsOnPressCell(componentsState, c)
        /\ op' = [name |-> "onPressCell", col |-> c]
        /\ input' = state
        /\ inputAfter' = placeDiscArgument(state, c)
        /\ lastMove' =
             IF changed # {}
             THEN [player |-> state.currentPlayer,
                   cell |-> CHOOSE cell \in changed : TRUE]
             ELSE lastMove
        /\ pos' = IF InOpening THEN pos + 1 ELSE pos
        /\ moves' = IF ~InOpening /\ nextState # state THEN moves + 1 ELSE moves
        /\ UNCHANGED script

\* resetGame(): setState(initialState), and the render that follows
resetGame ==
    /\ state' = initialState
    /\ closure' = initialState
    /\ expected' = initialState
    /\ componentsState' = componentsInitialState
    /\ op' = [name |-> "resetGame"]
    /\ input' = state
    /\ inputAfter' = state
    /\ lastMove' = NoMove
    /\ pos' = 0
    /\ moves' = 0
    /\ UNCHANGED script

Next ==
    \/ \E c \in PressedCols : onPressCell(c)
    \/ resetGame

Spec == Init /\ [][Next]_vars

\* ------------------------------------------------------------------------
\* The hook between two renders.  onPressCell and resetGame are closures of
\* the render that made them: onPressCell reads the state of that render,
\* and setState(nextState) replaces the hook's state, which the handlers
\* see after the next render only.  A game starts on the empty board and
\* has up to MaxMoves accepted presses.

InitBatched == Init /\ script = 1

\* onPressCell(col) of the last render: setState(placeDisc(state, col))
onPressCellBeforeRender(c) ==
    LET nextState == placeDisc(closure, c)
        changed == Changed(closure.gameBoard, nextState.gameBoard)
    IN  /\ moves < MaxMoves \/ nextState = closure
        /\ state' = nextState
        /\ expected' = placeDisc(expected, c)
        /\ op' = [name |-> "onPressCell", col |-> c]
        /\ input' = closure
        /\ inputAfter' = placeDiscArgument(closure, c)
        /\ lastMove' =
             IF changed # {}
             THEN [player |-> closure.currentPlayer,
                   cell |-> CHOOSE cell \in changed : TRUE]
             ELSE lastMove
        /\ moves' = IF nextState # closure THEN moves + 1 ELSE moves
        /\ UNCHANGED <<closure, script, pos, componentsState>>

\* resetGame() of the last render: setState(initialState)
resetGameBeforeRender ==
    /\ state' = initialState
    /\ expected' = initialState
    /\ op' = [name |-> "resetGame"]
    /\ input' = closure
    /\ inputAfter' = closure
    /\ lastMove' = NoMove
    /\ UNCHANGED <<closure, script, pos, moves, componentsState>>

\* the component renders: the new handlers close over the hook's state
render ==
    /\ closure # state
    /\ closure' = state
    /\ UNCHANGED <<state, expected, op, input, inputAfter, lastMove,
                   script, pos, moves, componentsState>>

NextBatched ==
    \/ \E c \in PressedCols : onPressCellBeforeRender(c)
    \/ resetGameBeforeRender
    \/ render

SpecBatched == InitBatched /\ [][NextBatched]_vars

\* ------------------------------------------------------------------------
\* Vocabulary of the properties

Players == {"red", "yellow"}

\* the last call was onPressCell: state = placeDisc(input, op.col)
Pressed == op.name = "onPressCell"

\* ... on a game that was going on
PressedOn == Pressed /\ input.result = "continue"

HasEmpty(board, c) == \E r \in Rows : board[r][c] = "null"

\* ... and the column was on the grid and had room: an accepted move
Accepted == PressedOn /\ op.col \in Cols /\ HasEmpty(input.gameBoard, op.col)

\* the number of discs in column c
Discs(board, c) == Cardinality({r \in Rows : board[r][c] # "null"})

\* the board has ROWS rows of COLUMNS cells
IsGrid(board) == DOMAIN board = Rows /\ \A r \in Rows : DOMAIN board[r] = Cols

SetOf(seq) == {seq[i] : i \in 1 .. Len(seq)}

\* horizontal, vertical and the two diagonals
Axes == {<<0, 1>>, <<1, 0>>, <<1, 1>>, <<1, -1>>}

\* the cell k steps from cell along axis
Step(cell, axis, k) == <<cell[1] + k * axis[1], cell[2] + k * axis[2]>>

Holds(board, player, cell) ==
    cell \in Rows \X Cols /\ board[cell[1]][cell[2]] = player

Between(k) == IF k < 0 THEN k .. 0 ELSE 0 .. k

\* the contiguous run of player's discs through cell along axis
Run(board, player, cell, axis) ==
    {Step(cell, axis, k) :
        k \in {n \in (0 - COLUMNS) .. COLUMNS :
                 \A j \in Between(n) : Holds(board, player, Step(cell, axis, j))}}

\* the cells are n cells in a row along axis
Contiguous(cells, axis) ==
    \E first \in cells :
        cells = {Step(first, axis, k) : k \in 0 .. (Cardinality(cells) - 1)}

\* ------------------------------------------------------------------------
\* C1  A press on a finished game (result win or draw), whatever the column,
\*     returns the state it was given: result, board, currentPlayer and
\*     winningDiscs are those of the input.
C1_TerminalAbsorbing ==
    (Pressed /\ input.result \in {"win", "draw"}) => state = input

\* a press on a won game, on a column of the grid that still has room
C1_Witness ==
    /\ Pressed
    /\ input.result = "win"
    /\ op.col \in Cols
    /\ HasEmpty(input.gameBoard, op.col)
    /\ state = input

\* C2  An accepted move is a win exactly when the mover's contiguous run
\*     through the placed cell has length >= 4 on one of the four axes, and
\*     then winningDiscs holds exactly the cells of such a run.
C2_WinDetection ==
    Accepted =>
        \A cell \in Changed(input.gameBoard, state.gameBoard) :
            LET runs == {Run(state.gameBoard, input.currentPlayer, cell, axis) :
                            axis \in Axes}
                wins == {run \in runs : Cardinality(run) >= 4}
            IN  /\ (state.result = "win") <=> (wins # {})
                /\ state.result = "win" => SetOf(state.winningDiscs) \in wins

\* a win by a disc placed inside a horizontal run: both walks find discs
C2_Witness ==
    /\ Accepted
    /\ state.result = "win"
    /\ \E cell \in Changed(input.gameBoard, state.gameBoard) :
          /\ <<cell[1], cell[2] - 1>> \in SetOf(state.winningDiscs)
          /\ <<cell[1], cell[2] + 1>> \in SetOf(state.winningDiscs)

\* C3  Gravity: a press on a column of the grid holding k < 6 discs puts the
\*     current player's disc at row 5 - k and leaves the column's other rows
\*     as they were.
C3_Gravity ==
    (PressedOn /\ op.col \in Cols /\ Discs(input.gameBoard, op.col) < ROWS) =>
        LET k == Discs(input.gameBoard, op.col)
        IN  /\ state.gameBoard[ROWS - 1 - k][op.col] = input.currentPlayer
            /\ \A r \in Rows \ {ROWS - 1 - k} :
                  state.gameBoard[r][op.col] = input.gameBoard[r][op.col]

\* a disc dropped on a column that held three
C3_Witness ==
    /\ PressedOn
    /\ op.col \in Cols
    /\ Discs(input.gameBoard, op.col) = 3
    /\ input.gameBoard[2][op.col] = "null"
    /\ state.gameBoard[2][op.col] = input.currentPlayer

\* C4  An accepted move that neither wins nor draws passes the turn to the
\*     other player, leaves result at continue, and changes exactly one
\*     cell, which was empty and now holds the mover's disc.
C4_TurnAlternation ==
    (Accepted /\ state.result \notin {"win", "draw"}) =>
        /\ state.result = "continue"
        /\ state.currentPlayer \in Players \ {input.currentPlayer}
        /\ IsGrid(state.gameBoard)
        /\ Cardinality(Changed(input.gameBoard, state.gameBoard)) = 1
        /\ \A cell \in Changed(input.gameBoard, state.gameBoard) :
              /\ input.gameBoard[cell[1]][cell[2]] = "null"
              /\ state.gameBoard[cell[1]][cell[2]] = input.currentPlayer

\* yellow has moved and the game goes on with red
C4_Witness ==
    /\ Accepted
    /\ state.result = "continue"
    /\ input.currentPlayer = "yellow"
    /\ state.currentPlayer = "red"

\* C5  A press on a full column of the grid, in a game that is going on,
\*     returns the state it was given: the turn does not pass.
C5_FullColumnRejected ==
    (PressedOn /\ op.col \in Cols /\ ~HasEmpty(input.gameBoard, op.col)) =>
        state = input

\* a press on a full column while other columns have room
C5_Witness ==
    /\ PressedOn
    /\ op.col \in Cols
    /\ Discs(input.gameBoard, op.col) = ROWS
    /\ \E c \in Cols : HasEmpty(input.gameBoard, c)
    /\ state.currentPlayer = input.currentPlayer

\* C6  A press on a column off the grid (c < 0 or c >= 7), in a game that is
\*     going on, returns the state it was given, and the board keeps 6 rows
\*     of 7 cells.
C6_OutOfRangeRejected ==
    (PressedOn /\ op.col \notin Cols) =>
        state = input /\ IsGrid(state.gameBoard)

\* a press on column 7 of a board that holds discs
C6_Witness ==
    /\ PressedOn
    /\ op.col = COLUMNS
    /\ input.gameBoard # initialBoard
    /\ state = input

\* C7  An accepted move that does not win and leaves no empty cell in row 0
\*     is a draw: winningDiscs is null, currentPlayer is still the mover,
\*     and all 42 cells are occupied.
C7_DrawDetection ==
    (/\ Accepted
     /\ state.result # "win"
     /\ \A c \in Cols : state.gameBoard[0][c] # "null") =>
        /\ state.result = "draw"
        /\ state.winningDiscs = NULL
        /\ state.currentPlayer = input.currentPlayer
        /\ \A r \in Rows : \A c \in Cols : state.gameBoard[r][c] \in Players

\* the move that fills the board
C7_Witness ==
    /\ Accepted
    /\ state.result = "draw"
    /\ \E c \in Cols : input.gameBoard[0][c] = "null"

\* C8  winningDiscs is non-null exactly when result is win.
C8_WinningDiscsIffWin ==
    (state.winningDiscs # NULL) <=> (state.result = "win")

\* a won game, with its discs
C8_Witness ==
    /\ state.result = "win"
    /\ Len(state.winningDiscs) >= 4

\* C9  In a won game currentPlayer is the player of the last accepted move,
\*     and winningDiscs are cells of the board holding that player's discs,
\*     at least 4 of them, contiguous along one axis, the last placed cell
\*     among them.
C9_WinnerRecorded ==
    state.result = "win" =>
        LET discs == SetOf(state.winningDiscs)
        IN  /\ state.currentPlayer = lastMove.player
            /\ \A d \in discs : Holds(state.gameBoard, state.currentPlayer, d)
            /\ Cardinality(discs) >= 4
            /\ \E axis \in Axes : Contiguous(discs, axis)
            /\ lastMove.cell \in discs

\* a game yellow has won, pressed again since
C9_Witness ==
    /\ state.result = "win"
    /\ lastMove.player = "yellow"
    /\ state.currentPlayer = "yellow"
    /\ Pressed
    /\ input = state

\* C10 resetGame yields the starting state, whatever the game was: 42 empty
\*     cells, red to move, result continue, winningDiscs null; and every
\*     column of the grid then accepts red's disc.
C10_Reset ==
    op.name = "resetGame" =>
        /\ state.result = "continue"
        /\ state.currentPlayer = "red"
        /\ state.winningDiscs = NULL
        /\ IsGrid(state.gameBoard)
        /\ \A r \in Rows : \A c \in Cols : state.gameBoard[r][c] = "null"
        /\ \A c \in Cols :
              LET after == placeDisc(state, c)
              IN  /\ after.gameBoard[ROWS - 1][c] = "red"
                  /\ after.result = "continue"
                  /\ after.currentPlayer = "yellow"

\* a reset of a game that ended in a draw
C10_Witness ==
    /\ op.name = "resetGame"
    /\ input.result = "draw"
    /\ state.gameBoard = initialBoard
    /\ state.currentPlayer = "red"

\* ------------------------------------------------------------------------
\* More vocabulary

AllOccupied(board) == \A r \in Rows : \A c \in Cols : board[r][c] # "null"

TopRowFull(board) == \A c \in Cols : board[0][c] # "null"

\* the axes in the order isWinningMove tries them
AxisOrder == << <<0, 1>>, <<1, 0>>, <<1, 1>>, <<1, -1>> >>

\* the axes (by their place in AxisOrder) on which the last placed disc
\* lies in a run of at least 4 of its player's discs
WinningAxes ==
    {i \in 1 .. 4 :
        Cardinality(Run(state.gameBoard, lastMove.player, lastMove.cell,
                        AxisOrder[i])) >= 4}

\* how many of player's discs follow cell along axis, in the direction of
\* sign, before the first cell that is off the board, empty or the opponent's
WalkLen(board, player, cell, axis, sign) ==
    Cardinality({k \in 1 .. COLUMNS :
                    \A j \in 1 .. k : Holds(board, player, Step(cell, axis, sign * j))})

\* those cells, nearest first
Walk(board, player, cell, axis, sign) ==
    [i \in 1 .. WalkLen(board, player, cell, axis, sign) |-> Step(cell, axis, sign * i)]

\* player has four discs in a row on some line of the board
HasFour(board, player) ==
    \E r \in Rows : \E c \in Cols :
        /\ board[r][c] = player
        /\ \E axis \in Axes :
              \A k \in 1 .. 3 : Holds(board, player, Step(<<r, c>>, axis, k))

\* a GameState of types.ts, on the 6 x 7 grid
IsGameState(s) ==
    /\ DOMAIN s = {"result", "gameBoard", "currentPlayer", "winningDiscs"}
    /\ s.result \in {"win", "draw", "continue"}
    /\ IsGrid(s.gameBoard)
    /\ \A r \in Rows : \A c \in Cols : s.gameBoard[r][c] \in Players \cup {"null"}
    /\ s.currentPlayer \in Players
    /\ \A d \in SetOf(s.winningDiscs) : d \in Rows \X Cols

\* ------------------------------------------------------------------------
\* C11 On every reachable board, row 0 has no empty cell exactly when all 42
\*     cells are occupied, so isBoardFull reports a full board exactly when
\*     the board is full.
C11_TopRowFullIffBoardFull ==
    /\ TopRowFull(state.gameBoard) <=> AllOccupied(state.gameBoard)
    /\ isBoardFull(state.gameBoard) <=> AllOccupied(state.gameBoard)

\* six of the seven cells of row 0 are occupied: not full
C11_Witness ==
    /\ Cardinality({c \in Cols : state.gameBoard[0][c] # "null"}) = COLUMNS - 1
    /\ ~isBoardFull(state.gameBoard)

\* C12 In every reachable state the board has 6 rows of 7 cells and in each
\*     column the occupied cells are exactly the bottom k rows, k the number
\*     of discs in the column.
C12_ColumnsFillFromBottom ==
    /\ IsGrid(state.gameBoard)
    /\ \A c \in Cols : \A r \in Rows :
          (state.gameBoard[r][c] # "null") <=> (r >= ROWS - Discs(state.gameBoard, c))

\* a full column, an empty one and one holding two discs
C12_Witness ==
    \E full, empty, two \in Cols :
        /\ Discs(state.gameBoard, full) = ROWS
        /\ Discs(state.gameBoard, empty) = 0
        /\ Discs(state.gameBoard, two) = 2

\* C13 A press never clears or recolours a disc: every cell that held a
\*     player's disc before the call holds the same disc after it.
C13_MonotonicFill ==
    Pressed =>
        \A r \in Rows : \A c \in Cols :
            input.gameBoard[r][c] \in Players =>
                state.gameBoard[r][c] = input.gameBoard[r][c]

\* a disc dropped on a column that held discs of both players
C13_Witness ==
    /\ Accepted
    /\ state.gameBoard # input.gameBoard
    /\ \E r1, r2 \in Rows :
          /\ input.gameBoard[r1][op.col] = "red"
          /\ input.gameBoard[r2][op.col] = "yellow"

\* C14 On a winning move, winningDiscs is the run of the first axis, in the
\*     order horizontal, vertical, (1,1), (1,-1), on which the placed disc
\*     lies in a run of at least 4.
C14_FirstMatchAxis ==
    (Accepted /\ state.result = "win") =>
        /\ WinningAxes # {}
        /\ LET first == CHOOSE i \in WinningAxes : \A j \in WinningAxes : i <= j
           IN  SetOf(state.winningDiscs) =
                   Run(state.gameBoard, lastMove.player, lastMove.cell, AxisOrder[first])

\* a move that wins on two axes, of which one run is left out
C14_Witness ==
    /\ Accepted
    /\ state.result = "win"
    /\ Cardinality(WinningAxes) >= 2
    /\ \E i \in WinningAxes :
          Run(state.gameBoard, lastMove.player, lastMove.cell, AxisOrder[i])
              \ SetOf(state.winningDiscs) # {}

\* C15 isWinningCell(state, row, col) is true exactly for the cells listed
\*     in winningDiscs, and for no cell while result is continue or draw.
C15_IsWinningCell ==
    /\ \A r \in Rows : \A c \in Cols :
          isWinningCell(state, r, c) <=> (<<r, c>> \in SetOf(state.winningDiscs))
    /\ state.result \in {"continue", "draw"} =>
          \A r \in Rows : \A c \in Cols : ~isWinningCell(state, r, c)

\* a won game: a winning cell, and in its row a disc that is not one
C15_Witness ==
    /\ state.result = "win"
    /\ \E r \in Rows : \E c1, c2 \in Cols :
          /\ isWinningCell(state, r, c1)
          /\ state.gameBoard[r][c2] \in Players
          /\ ~isWinningCell(state, r, c2)

\* C16 placeDisc leaves its argument as it was: after the call the state it
\*     was given has the board, currentPlayer, result and winningDiscs it had
\*     before.
C16_InputNotMutated ==
    Pressed => inputAfter = input

\* an accepted move: the returned board has the disc, the argument has not
C16_Witness ==
    /\ Accepted
    /\ state.gameBoard # input.gameBoard
    /\ inputAfter = input
    /\ input.gameBoard # initialBoard

\* C17 placeDisc never throws, whatever the column, and what it returns is a
\*     GameState.
C17_NothingThrows ==
    Pressed =>
        /\ ~placeDiscThrows(input, op.col)
        /\ IsGameState(state)

\* a press on a column off the grid while a column of the grid is full
C17_Witness ==
    /\ PressedOn
    /\ op.col < 0
    /\ \E c \in Cols : ~HasEmpty(input.gameBoard, c)
    /\ IsGameState(state)

\* C18 The move that fills the board and completes a run of at least 4
\*     through the placed cell is a win, not a draw.
C18_WinBeforeDraw ==
    (/\ Accepted
     /\ AllOccupied(state.gameBoard)
     /\ \E cell \in Changed(input.gameBoard, state.gameBoard) :
           \E axis \in Axes :
               Cardinality(Run(state.gameBoard, input.currentPlayer, cell, axis)) >= 4) =>
        /\ state.result = "win"
        /\ state.winningDiscs # NULL

\* the 42nd disc wins
C18_Witness ==
    /\ Accepted
    /\ AllOccupied(state.gameBoard)
    /\ state.result = "win"
    /\ Len(state.winningDiscs) >= 4

\* C19 In a won game winningDiscs has no duplicate and is, for one axis, the
\*     placed cell, then the cells of the walk in the axis direction, nearest
\*     first, then those of the walk in the opposite direction, nearest
\*     first; each walk ends at the first cell that is off the board, empty
\*     or the opponent's.
C19_WinningDiscsShape ==
    state.result = "win" =>
        /\ Cardinality(SetOf(state.winningDiscs)) = Len(state.winningDiscs)
        /\ state.winningDiscs[1] = lastMove.cell
        /\ \E axis \in Axes :
              state.winningDiscs =
                  <<lastMove.cell>>
                  \o Walk(state.gameBoard, state.currentPlayer, lastMove.cell, axis, 1)
                  \o Walk(state.gameBoard, state.currentPlayer, lastMove.cell, axis, -1)

\* a win in which both walks found discs
C19_Witness ==
    /\ state.result = "win"
    /\ \E axis \in Axes :
          /\ WalkLen(state.gameBoard, state.currentPlayer, lastMove.cell, axis, 1) >= 1
          /\ WalkLen(state.gameBoard, state.currentPlayer, lastMove.cell, axis, -1) >= 1
          /\ Len(state.winningDiscs) =
                 1 + WalkLen(state.gameBoard, state.currentPlayer, lastMove.cell, axis, 1)
                   + WalkLen(state.gameBoard, state.currentPlayer, lastMove.cell, axis, -1)

\* C20 While result is continue or draw no player has four discs in a row
\*     on any line of the board, and in a won game the player who is not
\*     currentPlayer has none.
C20_NoUndetectedLine ==
    /\ state.result \in {"continue", "draw"} =>
          \A p \in Players : ~HasFour(state.gameBoard, p)
    /\ state.result = "win" =>
          \A p \in Players \ {state.currentPlayer} : ~HasFour(state.gameBoard, p)

\* a game that goes on with 40 discs on the board and no line of four
C20_Witness ==
    /\ state.result = "continue"
    /\ Cardinality({cell \in Rows \X Cols :
                       state.gameBoard[cell[1]][cell[2]] \in Players}) >= 40
    /\ \A p \in Players : ~HasFour(state.gameBoard, p)

\* ------------------------------------------------------------------------
\* More vocabulary

\* the number of player's discs on the board
Count(board, player) ==
    Cardinality({cell \in Rows \X Cols : board[cell[1]][cell[2]] = player})

\* ------------------------------------------------------------------------
\* C21 Disc-count parity.  While result is continue, red and yellow have the
\*     same number of discs when red is to move, and red has one more when
\*     yellow is to move.  In a won game red has one more when red is
\*     currentPlayer, and the same number when yellow is.
C21_DiscParity ==
    LET red == Count(state.gameBoard, "red")
        yellow == Count(state.gameBoard, "yellow")
    IN  /\ state.result = "continue" =>
              red = yellow + (IF state.currentPlayer = "red" THEN 0 ELSE 1)
        /\ state.result = "win" =>
              red = yellow + (IF state.currentPlayer = "red" THEN 1 ELSE 0)

\* a rejected press with yellow to move: red is still one disc ahead
C21_Witness ==
    /\ PressedOn
    /\ state = input
    /\ state.currentPlayer = "yellow"
    /\ Count(state.gameBoard, "red") = Count(state.gameBoard, "yellow") + 1
    /\ Count(state.gameBoard, "yellow") >= 3

\* C22 In a drawn game the board holds 42 discs, 21 red and 21 yellow, and
\*     currentPlayer is yellow, who placed the 42nd.
C22_DrawIsFullBoard ==
    state.result = "draw" =>
        /\ AllOccupied(state.gameBoard)
        /\ Count(state.gameBoard, "red") = 21
        /\ Count(state.gameBoard, "yellow") = 21
        /\ state.currentPlayer = "yellow"
        /\ lastMove.player = "yellow"

\* a drawn game, pressed again since
C22_Witness ==
    /\ state.result = "draw"
    /\ Pressed
    /\ input.result = "draw"
    /\ Count(state.gameBoard, "red") + Count(state.gameBoard, "yellow") = ROWS * COLUMNS

\* C23 No stuck game: while result is continue some column of the grid has
\*     an empty cell, and placeDisc on it changes the state.
C23_NoStuckGame ==
    state.result = "continue" =>
        \E c \in Cols :
            /\ HasEmpty(state.gameBoard, c)
            /\ placeDisc(state, c) # state

\* a game that goes on with one empty cell left
C23_Witness ==
    /\ state.result = "continue"
    /\ Cardinality({c \in Cols : HasEmpty(state.gameBoard, c)}) = 1
    /\ Count(state.gameBoard, "red") + Count(state.gameBoard, "yellow")
           = ROWS * COLUMNS - 1

\* C25 A win whose discs lie in one column has exactly 4 of them: the placed
\*     cell and the three cells below it.
C25_VerticalWinIsFour ==
    (/\ state.result = "win"
     /\ \A d \in SetOf(state.winningDiscs) : d[2] = lastMove.cell[2]) =>
        /\ Len(state.winningDiscs) = 4
        /\ SetOf(state.winningDiscs) =
               {<<lastMove.cell[1] + k, lastMove.cell[2]>> : k \in 0 .. 3}

\* a vertical win
C25_Witness ==
    /\ state.result = "win"
    /\ \A d \in SetOf(state.winningDiscs) : d[2] = lastMove.cell[2]
    /\ Len(state.winningDiscs) = 4

\* C27 The two hooks are equivalent: after every sequence of presses and
\*     resets, the hook of src/components/GameBoard.tsx (guard in
\*     onPressCell, then updateBoard) and the hook built on placeDisc hold
\*     the same result, board, currentPlayer and winningDiscs.
C27_HooksEquivalent ==
    /\ componentsState.result = state.result
    /\ componentsState.gameBoard = state.gameBoard
    /\ componentsState.currentPlayer = state.currentPlayer
    /\ componentsState.winningDiscs = state.winningDiscs

\* a won game, pressed again on a column with room: only the guard of
\* onPressCell keeps updateBoard from placing a disc
C27_Witness ==
    /\ Pressed
    /\ input.result = "win"
    /\ op.col \in Cols
    /\ HasEmpty(input.gameBoard, op.col)
    /\ updateBoard(input, op.col) # input
    /\ componentsState = state

\* C26 Presses are serialized by the hook: its state after the presses
\*     c1..cn is placeDisc(...placeDisc(placeDisc(s0, c1), c2)..., cn), also
\*     when presses are handled before the component renders again; no
\*     accepted disc is lost.
C26_PressesSerialized ==
    Pressed => state = expected

\* two presses handled by the handlers of one render
C26_Witness ==
    /\ Pressed
    /\ input = closure
    /\ closure # state
    /\ expected # placeDisc(closure, op.col)

\* ------------------------------------------------------------------------
\* Games played to their end, without resets: the opening, then up to
\* MaxDetour accepted presses of any column, and from then on the accepted
\* presses go to the leftmost column that has room.

LeftmostWithRoom(board, c) ==
    /\ c \in Cols
    /\ HasEmpty(board, c)
    /\ \A d \in Cols : d < c => ~HasEmpty(board, d)

\* onPressCell(col): setState(placeDisc(state, col)), and the render that
\* follows; the hook of src/components is not pressed and the fold of
\* placeDisc is not kept
onPressCellToTheEnd(c) ==
    /\ op' = [name |-> "onPressCell", col |-> c]
    /\ InOpening => c = Scripts[script][pos + 1]
    /\ state' = placeDisc(state, c)
    /\ \/ InOpening
       \/ moves < MaxDetour
       \/ state' = state
       \/ LeftmostWithRoom(state.gameBoard, c)
    /\ closure' = state'
    /\ input' = state
    /\ inputAfter' = placeDiscArgument(state, c)
    /\ lastMove' =
         IF state'.gameBoard # state.gameBoard
         THEN [player |-> state.currentPlayer,
               cell |-> CHOOSE cell \in Changed(state.gameBoard, state'.gameBoard) : TRUE]
         ELSE lastMove
    /\ pos' = IF InOpening THEN pos + 1 ELSE pos
    /\ moves' = IF ~InOpening /\ state' # state THEN moves + 1 ELSE moves
    /\ UNCHANGED <<script, expected, componentsState>>

NextToTheEnd == \E c \in PressedCols : onPressCellToTheEnd(c)

\* a press that places a disc
AcceptedPress ==
    \E c \in PressedCols :
        onPressCellToTheEnd(c) /\ state'.gameBoard # state.gameBoard

\* fairness on accepted moves: while some press is accepted, one is
\* eventually made
SpecToTheEnd == Init /\ [][NextToTheEnd]_vars /\ WF_vars(AcceptedPress)

\* accepted presses made since the initial state
AcceptedMoves == pos + moves

\* C24 Every game ends: without resets, each accepted move adds one disc, so
\*     result is win or draw after at most 42 accepted moves; under fairness
\*     on accepted moves a terminal state is eventually reached.
C24_EveryGameEnds ==
    /\ [](/\ AcceptedMoves =
               Count(state.gameBoard, "red") + Count(state.gameBoard, "yellow")
          /\ AcceptedMoves <= ROWS * COLUMNS
          /\ AcceptedMoves = ROWS * COLUMNS => state.result \in {"win", "draw"})
    /\ <>(state.result \in {"win", "draw"})

\* a game ended by its 42nd accepted move
C24_Witness ==
    /\ AcceptedMoves = ROWS * COLUMNS
    /\ state.result \in {"win", "draw"}
    /\ PressedOn
    /\ Accepted

====
